---- MODULE Spec2Model ----
(***************************************************************************)
(* Model of calculator.py: the four arithmetic functions and the menu loop *)
(* of main().  A line of input is a sequence of one-character strings, so  *)
(* that the comparison of the choice (exact) and the parsing of an operand *)
(* (float(): strips blanks, reads sign, digits and fraction) are computed  *)
(* rather than assumed.  A float is a sign and a magnitude n/d in lowest   *)
(* terms: every operand the model reads is a short decimal, and one        *)
(* arithmetic operation on two of them is exact or, for a quotient, is     *)
(* rounded only when it is printed.  Text written to standard output is a  *)
(* sequence of strings, one per print() call or input() prompt.            *)
(***************************************************************************)
EXTENDS Integers, Sequences, FiniteSets, TLC

\* Longest input session the model explores (number of lines typed).
MaxLines == 5

\* Longest session of the user who repeats themselves.
MaxSession == 9

\* The lines the user may type.  Five menu tokens, a digit that is no menu
\* token, zero, a negative number, a fraction, text that is no number, a
\* menu token with a leading blank, and the empty line.
Lines ==
    { <<"1">>, <<"2">>, <<"3">>, <<"4">>, <<"5">>, <<"7">>, <<"0">>,
      <<"-", "2">>, <<"0", ".", "5">>, <<"a", "b", "c">>, <<" ", "4">>, <<>> }

\* The lines of a user who types little and often: divide, exit, zero and
\* text that is no number.
SessionLines == { <<"4">>, <<"5">>, <<"0">>, <<"a", "b", "c">> }

VARIABLES
    pc,        \* position of main(): "menu", "choice", "first", "second", "done", "crashed"
    consumed,  \* the lines input() has returned so far, in order
    stdout,    \* the strings written so far, in order
    choice,    \* local variable choice of main()
    num1,      \* local variable num1 of main()
    num2,      \* local variable num2 of main()
    result,    \* local variable result of main()
    exc,       \* the exception that left main(), "none" while there is none
    calls,     \* the arithmetic functions invoked so far, with their arguments
    mark,      \* lengths of consumed, stdout and calls when the current iteration began
    tty        \* standard input: the lines it can carry and how many before it ends

vars == <<pc, consumed, stdout, choice, num1, num2, result, exc, calls, mark, tty>>

----------------------------------------------------------------------------
\* Values

\* A local variable that has not been assigned yet.
Unbound == [kind |-> "unbound"]

\* A Python str value.
Str(s) == [kind |-> "str", s |-> s]

\* An exception raised by a call instead of a value returned.
Raise(e) == [kind |-> "raise", exc |-> e]

RECURSIVE Gcd(_, _)
Gcd(a, b) == IF b = 0 THEN a ELSE Gcd(b, a % b)

\* A Python float: sign and magnitude n/d in lowest terms (-0.0 is neg, n = 0).
Float(neg, n, d) ==
    LET g == Gcd(n, d) IN [kind |-> "float", neg |-> neg, n |-> n \div g, d |-> d \div g]

Signed(x) == IF x.neg THEN 0 - x.n ELSE x.n

Abs(i) == IF i < 0 THEN 0 - i ELSE i

----------------------------------------------------------------------------
\* float(text)

Whitespace == {" ", "\t"}

DigitChr == <<"0", "1", "2", "3", "4", "5", "6", "7", "8", "9">>

IsDigit(c) == \E i \in 1..10 : DigitChr[i] = c

DigitVal(c) == (CHOOSE i \in 1..10 : DigitChr[i] = c) - 1

RECURSIVE LStrip(_)
LStrip(s) == IF s # <<>> /\ Head(s) \in Whitespace THEN LStrip(Tail(s)) ELSE s

RECURSIVE RStrip(_)
RStrip(s) ==
    IF s # <<>> /\ s[Len(s)] \in Whitespace THEN RStrip(SubSeq(s, 1, Len(s) - 1)) ELSE s

\* str.strip(), which float() applies to its argument first.
Strip(s) == RStrip(LStrip(s))

RECURSIVE DigitsVal(_)
DigitsVal(s) ==
    IF s = <<>> THEN 0 ELSE 10 * DigitsVal(SubSeq(s, 1, Len(s) - 1)) + DigitVal(s[Len(s)])

RECURSIVE Pow10(_)
Pow10(k) == IF k = 0 THEN 1 ELSE 10 * Pow10(k - 1)

\* float(s) for decimal literals: blanks stripped, optional sign, digits with
\* at most one point and at least one digit.  Anything else is a ValueError
\* (exponents, "inf", "nan" and underscores are not among Lines).
ParseFloat(s) ==
    LET t      == Strip(s)
        signed == t # <<>> /\ Head(t) \in {"-", "+"}
        body   == IF signed THEN Tail(t) ELSE t
        dots   == {i \in 1..Len(body) : body[i] = "."}
        dot    == IF dots = {} THEN Len(body) + 1 ELSE CHOOSE i \in dots : TRUE
        int    == SubSeq(body, 1, dot - 1)
        frac   == SubSeq(body, dot + 1, Len(body))
        ok     == /\ Cardinality(dots) <= 1
                  /\ Len(int) + Len(frac) >= 1
                  /\ \A i \in 1..Len(int) : IsDigit(int[i])
                  /\ \A i \in 1..Len(frac) : IsDigit(frac[i])
    IN  IF ok
        THEN Float(signed /\ Head(t) = "-", DigitsVal(int \o frac), Pow10(Len(frac)))
        ELSE Raise("ValueError")

----------------------------------------------------------------------------
\* The arithmetic functions

\* x + y on floats: a zero sum is -0.0 only when both terms are -0.0.
FloatAdd(x, y) ==
    LET num == Signed(x) * y.d + Signed(y) * x.d
    IN  IF num = 0 THEN Float(x.neg /\ y.neg, 0, 1)
        ELSE Float(num < 0, Abs(num), x.d * y.d)

\* x - y on floats: a zero difference is -0.0 only for (-0.0) - (+0.0).
FloatSub(x, y) ==
    LET num == Signed(x) * y.d - Signed(y) * x.d
    IN  IF num = 0 THEN Float(x.neg /\ ~y.neg, 0, 1)
        ELSE Float(num < 0, Abs(num), x.d * y.d)

\* x * y on floats: the sign is the exclusive or of the signs, also for zero.
FloatMul(x, y) == Float(x.neg # y.neg, x.n * y.n, x.d * y.d)

\* x / y on floats: ZeroDivisionError when y is 0.0 or -0.0.
FloatDiv(x, y) ==
    IF y.n = 0 THEN Raise("ZeroDivisionError")
    ELSE Float(x.neg # y.neg, x.n * y.d, x.d * y.n)

DivideByZeroText == "Error: Cannot divide by zero"

\* Variant of add: the operator of subtract.
add_asSubtract(x, y) == FloatSub(x, y)

add(x, y) == FloatAdd(x, y)

subtract(x, y) == FloatSub(x, y)

multiply(x, y) == FloatMul(x, y)

\* Variant of divide: a zero dividend is taken for a zero divisor.
divide_zeroDividend(x, y) ==
    IF x.n = 0 \/ y.n = 0 THEN Str(DivideByZeroText) ELSE FloatDiv(x, y)

\* Variant of divide: no try/except around the division.
divide_unguarded(x, y) == FloatDiv(x, y)

divide(x, y) ==
    LET q == FloatDiv(x, y)
    IN  IF q = Raise("ZeroDivisionError") THEN Str(DivideByZeroText) ELSE q

----------------------------------------------------------------------------
\* str(value), as the f-string of the result line formats it

RECURSIVE NatStr(_)
NatStr(k) == IF k < 10 THEN DigitChr[k + 1] ELSE NatStr(k \div 10) \o DigitChr[(k % 10) + 1]

RECURSIVE StripFactor(_, _)
StripFactor(d, p) == IF d % p = 0 THEN StripFactor(d \div p, p) ELSE d

\* The decimal expansion of n/d terminates.
IsShortDecimal(d) == StripFactor(StripFactor(d, 2), 5) = 1

\* Digits of r/d after the point, by long division, for a terminating expansion.
RECURSIVE FracDigits(_, _)
FracDigits(r, d) ==
    IF r = 0 THEN "" ELSE DigitChr[((10 * r) \div d) + 1] \o FracDigits((10 * r) % d, d)

\* repr() of the double nearest to n/d where the expansion does not
\* terminate: the shortest digits that read back as the same double.
RoundedRepr ==
    [q \in { <<1, 3>>, <<2, 3>>, <<4, 3>>, <<5, 3>>, <<7, 3>>, <<1, 6>>,
             <<1, 7>>, <<2, 7>>, <<3, 7>>, <<4, 7>>, <<5, 7>>, <<1, 14>> } |->
        CASE q = <<1, 3>>  -> "0.3333333333333333"
          [] q = <<2, 3>>  -> "0.6666666666666666"
          [] q = <<4, 3>>  -> "1.3333333333333333"
          [] q = <<5, 3>>  -> "1.6666666666666667"
          [] q = <<7, 3>>  -> "2.3333333333333335"
          [] q = <<1, 6>>  -> "0.16666666666666666"
          [] q = <<1, 7>>  -> "0.14285714285714285"
          [] q = <<2, 7>>  -> "0.2857142857142857"
          [] q = <<3, 7>>  -> "0.42857142857142855"
          [] q = <<4, 7>>  -> "0.5714285714285714"
          [] q = <<5, 7>>  -> "0.7142857142857143"
          [] q = <<1, 14>> -> "0.07142857142857142"]

\* repr() of a float: "5.0", "-0.0", "2.5".
FloatRepr(x) ==
    LET sign == IF x.neg THEN "-" ELSE ""
        frac == FracDigits(x.n % x.d, x.d)
    IN  IF IsShortDecimal(x.d)
        THEN sign \o NatStr(x.n \div x.d) \o "." \o (IF frac = "" THEN "0" ELSE frac)
        ELSE sign \o RoundedRepr[<<x.n, x.d>>]

\* str() of what result holds: a float or the divide-by-zero text.
ToStr(v) == IF v.kind = "str" THEN v.s ELSE FloatRepr(v)

----------------------------------------------------------------------------
\* Text written by main()

MenuHeader == "\nSimple Calculator\n"

MenuOptions == "1. Add\n2. Subtract\n3. Multiply\n4. Divide\n5. Exit\n"

ChoicePrompt == "Choose operation (1-5): "

FirstPrompt == "Enter first number: "

SecondPrompt == "Enter second number: "

GoodbyeText == "Goodbye!\n"

InvalidInputText == "Invalid input. Please enter numbers only.\n"

InvalidSelectionText == "Invalid selection. Please choose 1-5\n"

\* Variant of ResultText: a result already held is written again.
ResultText_stale(v) ==
    "\nResult: " \o ToStr(IF result.kind = "unbound" THEN v ELSE result) \o "\n"

ResultText(v) == "\nResult: " \o ToStr(v) \o "\n"

ExitToken == <<"5">>

OperationTokens == { <<"1">>, <<"2">>, <<"3">>, <<"4">> }

----------------------------------------------------------------------------
\* main()

\* The state when main() is entered, reading from standard input t.
Start(t) ==
    /\ tty = t
    /\ pc = "menu"
    /\ consumed = <<>>
    /\ stdout = <<>>
    /\ choice = Unbound
    /\ num1 = Unbound
    /\ num2 = Unbound
    /\ result = Unbound
    /\ exc = "none"
    /\ calls = <<>>
    /\ mark = [in |-> 0, out |-> 0, calls |-> 0]

Init == Start([lines |-> Lines, length |-> MaxLines])

InitSession == Start([lines |-> SessionLines, length |-> MaxSession])

\* choice == '5'
IsExit(c) == c = ExitToken

\* Variant of IsOperation: the choice is stripped before it is compared.
IsOperation_stripped(c) == Strip(c) \in OperationTokens

\* choice in ['1', '2', '3', '4']
IsOperation(c) == c \in OperationTokens

\* input(prompt) returning line: the prompt is written and the line consumed.
Input(prompt, line) ==
    /\ Len(consumed) < tty.length
    /\ consumed' = Append(consumed, line)
    /\ tty' = tty

\* Top of the loop: the two print() calls of the menu.
ShowMenu ==
    /\ pc = "menu"
    /\ stdout' = stdout \o <<MenuHeader, MenuOptions>>
    /\ mark' = [in |-> Len(consumed), out |-> Len(stdout), calls |-> Len(calls)]
    /\ pc' = "choice"
    /\ UNCHANGED <<consumed, choice, num1, num2, result, exc, calls, tty>>

\* choice == '5': farewell and break.
Exit ==
    /\ pc = "choice"
    /\ \E line \in tty.lines :
        /\ Input(ChoicePrompt, line)
        /\ IsExit(line)
        /\ choice' = line
        /\ stdout' = stdout \o <<ChoicePrompt, GoodbyeText>>
    /\ pc' = "done"
    /\ UNCHANGED <<num1, num2, result, exc, calls, mark>>

\* choice in ['1', '2', '3', '4']: enter the try block.
SelectOperation ==
    /\ pc = "choice"
    /\ \E line \in tty.lines :
        /\ Input(ChoicePrompt, line)
        /\ ~IsExit(line)
        /\ IsOperation(line)
        /\ choice' = line
        /\ stdout' = Append(stdout, ChoicePrompt)
    /\ pc' = "first"
    /\ UNCHANGED <<num1, num2, result, exc, calls, mark>>

\* The else branch: any other choice.
InvalidSelection ==
    /\ pc = "choice"
    /\ \E line \in tty.lines :
        /\ Input(ChoicePrompt, line)
        /\ ~IsExit(line)
        /\ ~IsOperation(line)
        /\ choice' = line
        /\ stdout' = stdout \o <<ChoicePrompt, InvalidSelectionText>>
    /\ pc' = "menu"
    /\ UNCHANGED <<num1, num2, result, exc, calls, mark>>

\* num1 = float(input(...)) where the text parses.
FirstOperand ==
    /\ pc = "first"
    /\ \E line \in tty.lines :
        /\ Input(FirstPrompt, line)
        /\ ParseFloat(line).kind = "float"
        /\ num1' = ParseFloat(line)
    /\ stdout' = Append(stdout, FirstPrompt)
    /\ pc' = "second"
    /\ UNCHANGED <<choice, num2, result, exc, calls, mark>>

\* Variant of FirstOperandInvalid: both operand lines are read before the
\* first is parsed.
FirstOperandInvalid_readsBoth ==
    /\ pc = "first"
    /\ \E line \in tty.lines, line2 \in tty.lines :
        /\ Len(consumed) + 2 <= tty.length
        /\ ParseFloat(line) = Raise("ValueError")
        /\ consumed' = consumed \o <<line, line2>>
    /\ stdout' = stdout \o <<FirstPrompt, SecondPrompt, InvalidInputText>>
    /\ pc' = "menu"
    /\ UNCHANGED <<choice, num1, num2, result, exc, calls, mark, tty>>

\* num1 = float(input(...)) raising ValueError: the except clause.
FirstOperandInvalid ==
    /\ pc = "first"
    /\ \E line \in tty.lines :
        /\ Input(FirstPrompt, line)
        /\ ParseFloat(line) = Raise("ValueError")
    /\ stdout' = stdout \o <<FirstPrompt, InvalidInputText>>
    /\ pc' = "menu"
    /\ UNCHANGED <<choice, num1, num2, result, exc, calls, mark>>

\* The if/elif chain that selects the function.
Selected(c) ==
    IF c = <<"1">> THEN "add"
    ELSE IF c = <<"2">> THEN "subtract"
    ELSE IF c = <<"3">> THEN "multiply"
    ELSE "divide"

\* Variant of Apply: the operands are passed in the opposite order.
Apply_swapped(f, x, y) ==
    CASE f = "add"      -> add(y, x)
      [] f = "subtract" -> subtract(y, x)
      [] f = "multiply" -> multiply(y, x)
      [] f = "divide"   -> divide(y, x)

\* The call the chain makes.
Apply(f, x, y) ==
    CASE f = "add"      -> add(x, y)
      [] f = "subtract" -> subtract(x, y)
      [] f = "multiply" -> multiply(x, y)
      [] f = "divide"   -> divide(x, y)

\* num2 = float(input(...)) where the text parses, the dispatch and the
\* result line.  An exception out of the call is caught when it is a
\* ValueError and leaves main() otherwise.
SecondOperand ==
    /\ pc = "second"
    /\ \E line \in tty.lines :
        /\ Input(SecondPrompt, line)
        /\ ParseFloat(line).kind = "float"
        /\ num2' = ParseFloat(line)
    /\ LET f == Selected(choice)
           r == Apply(f, num1, num2')
       IN  /\ calls' = Append(calls, <<f, num1, num2'>>)
           /\ IF r.kind # "raise"
              THEN /\ result' = r
                   /\ stdout' = stdout \o <<SecondPrompt, ResultText(r)>>
                   /\ pc' = "menu"
                   /\ exc' = exc
              ELSE IF r.exc = "ValueError"
              THEN /\ stdout' = stdout \o <<SecondPrompt, InvalidInputText>>
                   /\ pc' = "menu"
                   /\ UNCHANGED <<result, exc>>
              ELSE /\ stdout' = Append(stdout, SecondPrompt)
                   /\ pc' = "crashed"
                   /\ exc' = r.exc
                   /\ UNCHANGED result
    /\ UNCHANGED <<choice, num1, mark>>

\* Variant of SecondOperandInvalid: text that is no number counts as zero.
SecondOperandInvalid_asZero ==
    /\ pc = "second"
    /\ \E line \in tty.lines :
        /\ Input(SecondPrompt, line)
        /\ ParseFloat(line) = Raise("ValueError")
    /\ num2' = Float(FALSE, 0, 1)
    /\ LET f == Selected(choice)
           r == Apply(f, num1, num2')
       IN  /\ calls' = Append(calls, <<f, num1, num2'>>)
           /\ result' = r
           /\ stdout' = stdout \o <<SecondPrompt, ResultText(r)>>
    /\ pc' = "menu"
    /\ UNCHANGED <<choice, num1, exc, mark>>

\* num2 = float(input(...)) raising ValueError: the except clause.
SecondOperandInvalid ==
    /\ pc = "second"
    /\ \E line \in tty.lines :
        /\ Input(SecondPrompt, line)
        /\ ParseFloat(line) = Raise("ValueError")
    /\ stdout' = stdout \o <<SecondPrompt, InvalidInputText>>
    /\ pc' = "menu"
    /\ UNCHANGED <<choice, num1, num2, result, exc, calls, mark>>

PromptAt(p) ==
    CASE p = "choice" -> ChoicePrompt
      [] p = "first"  -> FirstPrompt
      [] p = "second" -> SecondPrompt

\* input() at the end of the input stream raises EOFError, which no except
\* clause of main() names: it leaves main().
EndOfInput ==
    /\ pc \in {"choice", "first", "second"}
    /\ stdout' = Append(stdout, PromptAt(pc))
    /\ exc' = "EOFError"
    /\ pc' = "crashed"
    /\ UNCHANGED <<consumed, choice, num1, num2, result, calls, mark, tty>>

Next ==
    \/ ShowMenu
    \/ Exit
    \/ SelectOperation
    \/ InvalidSelection
    \/ FirstOperand
    \/ FirstOperandInvalid
    \/ SecondOperand
    \/ SecondOperandInvalid
    \/ EndOfInput

Spec == Init /\ [][Next]_vars

SpecSession == InitSession /\ [][Next]_vars

----------------------------------------------------------------------------
\* The current iteration: what it has read, written and called so far.

IterLines == SubSeq(consumed, mark.in + 1, Len(consumed))

IterOut == SubSeq(stdout, mark.out + 1, Len(stdout))

IterCalls == SubSeq(calls, mark.calls + 1, Len(calls))

\* What every iteration writes before it reads the choice.
MenuShown ==
    << "\nSimple Calculator\n",
       "1. Add\n2. Subtract\n3. Multiply\n4. Divide\n5. Exit\n",
       "Choose operation (1-5): " >>

Terminated == pc \in {"done", "crashed"}

\* The step taken from the top of the loop displays the menu.
MenuRedisplayed == pc = "menu" => stdout' = stdout \o <<MenuHeader, MenuOptions>>

----------------------------------------------------------------------------
\* Properties

\* C1: main() terminates only when the line read at a menu-choice position
\* is exactly "5"; nothing else, the input stream running out included, ends
\* the loop.
C1_TerminatesOnlyOnExit ==
    Terminated =>
        /\ Len(consumed) = mark.in + 1
        /\ consumed[Len(consumed)] = <<"5">>

\* C2: no reachable state of main() is an uncaught-exception state, whatever
\* is supplied at the three prompts and at every point where input is read.
C2_NoCrashState == pc # "crashed" /\ exc = "none"

\* C3 as stated: on the input lines "1", "2", "3", "5" main() prints two add
\* results, then "Goodbye!", then terminates without reading further input.
C3_TwoAddResults ==
    (pc = "done" /\ consumed = << <<"1">>, <<"2">>, <<"3">>, <<"5">> >>) =>
        /\ Cardinality({i \in 1..Len(stdout) : stdout[i] = "\nResult: 5.0\n"}) = 2
        /\ stdout[Len(stdout)] = "Goodbye!\n"

\* C3 amended: once the input lines "1", "2", "3", "5" have been read, main()
\* has terminated normally, has read nothing after them, and has written the
\* menu, the three prompts, the one add result "Result: 5.0", the menu and
\* the choice prompt again, and "Goodbye!".
C3_OneAddResult ==
    (Len(consumed) >= 4 /\ SubSeq(consumed, 1, 4) = << <<"1">>, <<"2">>, <<"3">>, <<"5">> >>) =>
        /\ pc = "done"
        /\ exc = "none"
        /\ Len(consumed) = 4
        /\ stdout = MenuShown
                    \o << "Enter first number: ", "Enter second number: ", "\nResult: 5.0\n" >>
                    \o MenuShown
                    \o << "Goodbye!\n" >>

C3_Witness ==
    /\ pc = "done"
    /\ consumed = << <<"1">>, <<"2">>, <<"3">>, <<"5">> >>
    /\ calls = << <<"add", Float(FALSE, 2, 1), Float(FALSE, 3, 1)>> >>

\* r is the float x / y: r * y = x in magnitude, and the sign of r is
\* negative exactly when the signs of x and y differ.
IsQuotient(r, x, y) ==
    /\ r.kind = "float"
    /\ r.n * y.n * x.d = x.n * r.d * y.d
    /\ r.neg = (x.neg # y.neg)

\* C4: divide(x, y) returns the text "Error: Cannot divide by zero" exactly
\* when y is zero, for any x, and never raises; when y is not zero it returns
\* the quotient x / y.  Checked on every pair main() has passed to divide.
C4_DivideContract ==
    \A i \in 1..Len(calls) :
        calls[i][1] = "divide" =>
            LET x == calls[i][2]
                y == calls[i][3]
                r == divide(x, y)
            IN  /\ r.kind # "raise"
                /\ (y.n = 0) <=> (r = [kind |-> "str", s |-> "Error: Cannot divide by zero"])
                /\ (y.n # 0) => IsQuotient(r, x, y)
                /\ (i = Len(calls) /\ pc = "menu" /\ IterCalls # <<>>) => result = r

\* divide has been called with a negative x and y = 0, after an iteration
\* that called nothing.
C4_Witness ==
    /\ pc = "menu"
    /\ mark.in > 0
    /\ calls = << <<"divide", Float(TRUE, 2, 1), Float(FALSE, 0, 1)>> >>
    /\ result = Str(DivideByZeroText)

\* C5: when the choice is "4", both operands parse and the second is zero,
\* the iteration writes "Result: Error: Cannot divide by zero" through the
\* result line, writes no invalid-input message, and is back at the menu.
C5_DivideByZeroIsAResult ==
    (/\ Len(IterLines) = 3
     /\ IterLines[1] = <<"4">>
     /\ ParseFloat(IterLines[3]).kind = "float"
     /\ ParseFloat(IterLines[3]).n = 0) =>
        /\ pc = "menu"
        /\ exc = "none"
        /\ IterOut = MenuShown
                     \o << "Enter first number: ", "Enter second number: ",
                           "\nResult: Error: Cannot divide by zero\n" >>

C5_Witness ==
    /\ pc = "menu"
    /\ IterLines = << <<"4">>, <<"7">>, <<"0">> >>

\* C6: when the choice is one of "1"-"4" and an operand fails to parse, the
\* iteration invokes no arithmetic function, writes no result line, writes
\* "Invalid input. Please enter numbers only." as its only outcome, and is
\* back at the top of the loop, whose next step displays the menu.
C6_Invalid ==
    (/\ Len(IterLines) >= 2
     /\ IterLines[1] \in { <<"1">>, <<"2">>, <<"3">>, <<"4">> }
     /\ \E i \in 2..Len(IterLines) : ParseFloat(IterLines[i]).kind = "raise") =>
        /\ pc = "menu"
        /\ IterCalls = <<>>
        /\ IterOut = MenuShown
                     \o (IF Len(IterLines) = 2
                         THEN << "Enter first number: " >>
                         ELSE << "Enter first number: ", "Enter second number: " >>)
                     \o << "Invalid input. Please enter numbers only.\n" >>

C6_InvalidOperand == [](C6_Invalid) /\ [][MenuRedisplayed]_vars

\* An iteration that failed on its second operand, the first one assigned.
C6_Witness ==
    /\ pc = "menu"
    /\ IterLines = << <<"3">>, <<"2">>, <<"a", "b", "c">> >>
    /\ num1 = Float(FALSE, 2, 1)

\* C7: every choice that is not exactly one of "1".."5" writes exactly
\* "Invalid selection. Please choose 1-5", reads no operand, invokes no
\* arithmetic function, and is back at the top of the loop, whose next step
\* displays the menu.
C7_Invalid ==
    (/\ IterLines # <<>>
     /\ IterLines[1] \notin { <<"1">>, <<"2">>, <<"3">>, <<"4">>, <<"5">> }) =>
        /\ pc = "menu"
        /\ Len(IterLines) = 1
        /\ IterCalls = <<>>
        /\ IterOut = MenuShown \o << "Invalid selection. Please choose 1-5\n" >>

C7_InvalidSelection == [](C7_Invalid) /\ [][MenuRedisplayed]_vars

\* A menu token with a leading blank has been refused, and so have "7" and
\* the empty line before it.
C7_Witness ==
    /\ pc = "menu"
    /\ consumed = << <<"7">>, <<>>, <<" ", "4">> >>

\* C8 as stated: after an operation token the second operand is read even
\* when the first fails to parse, so every operation iteration consumes
\* exactly three lines.
C8_BothOperandsRead ==
    (/\ pc = "menu"
     /\ IterLines # <<>>
     /\ IterLines[1] \in { <<"1">>, <<"2">>, <<"3">>, <<"4">> }) =>
        Len(IterLines) = 3

\* C8 amended: after an operation token the second operand is prompted for
\* and read only when the first operand parses; an operation iteration that
\* has returned to the menu has consumed two lines (choice, first operand)
\* when the first operand failed to parse and three otherwise.
C8_SecondOnlyAfterFirstParses ==
    (/\ pc = "menu"
     /\ IterLines # <<>>
     /\ IterLines[1] \in { <<"1">>, <<"2">>, <<"3">>, <<"4">> }) =>
        /\ Len(IterLines) >= 2
        /\ IF ParseFloat(IterLines[2]).kind = "raise"
           THEN /\ Len(IterLines) = 2
                /\ \A i \in 1..Len(IterOut) : IterOut[i] # "Enter second number: "
           ELSE /\ Len(IterLines) = 3
                /\ IterOut[5] = "Enter second number: "

C8_Witness ==
    /\ pc = "menu"
    /\ IterLines = << <<"1">>, <<"a", "b", "c">> >>

\* C9: when both operands parse, the value written after "Result:" is that
\* of the function the choice selects, applied to the operands in the order
\* entered: "1" add, "2" subtract, "3" multiply, "4" divide.
C9_DispatchInOrder ==
    Len(IterLines) = 3 =>
        LET c == IterLines[1]
            x == ParseFloat(IterLines[2])
            y == ParseFloat(IterLines[3])
            v == CASE c = <<"1">> -> add(x, y)
                   [] c = <<"2">> -> subtract(x, y)
                   [] c = <<"3">> -> multiply(x, y)
                   [] c = <<"4">> -> divide(x, y)
            f == CASE c = <<"1">> -> "add"
                   [] c = <<"2">> -> "subtract"
                   [] c = <<"3">> -> "multiply"
                   [] c = <<"4">> -> "divide"
        IN  (x.kind = "float" /\ y.kind = "float") =>
                /\ pc = "menu"
                /\ result = v
                /\ IterCalls = << <<f, x, y>> >>
                /\ Len(IterOut) = 6
                /\ IterOut[6] = "\nResult: " \o ToStr(v) \o "\n"

\* 2 - 3 through choice "2": the order of the operands shows.
C9_Witness ==
    /\ pc = "menu"
    /\ IterLines = << <<"2">>, <<"2">>, <<"3">> >>
    /\ stdout[Len(stdout)] = "\nResult: -1.0\n"

\* C10: no state is carried between iterations.  An iteration that has read
\* the same lines as the first iteration of the session (which began with
\* every local variable unassigned) has written the same text as the first
\* iteration did, whatever iterations lie between them.
C10_NoCarriedState ==
    (/\ pc = "menu"
     /\ mark.in > 0
     /\ IterLines # <<>>
     /\ IterLines = SubSeq(consumed, 1, Len(IterLines))) =>
        /\ Len(stdout) > Len(IterOut)
        /\ IterOut = SubSeq(stdout, 1, Len(IterOut))
        /\ stdout[Len(IterOut) + 1] = "\nSimple Calculator\n"

\* 4 / 4, then 4 / 0 failing on its second operand (num1 overwritten, num2
\* and result left over), then 4 / 4 again.
C10_Witness ==
    /\ pc = "menu"
    /\ consumed = << <<"4">>, <<"4">>, <<"4">>,
                     <<"4">>, <<"0">>, <<"a", "b", "c">>,
                     <<"4">>, <<"4">>, <<"4">> >>
    /\ num1 = Float(FALSE, 4, 1)
    /\ stdout[Len(stdout)] = "\nResult: 1.0\n"

====
